---- MODULE Spec2Model ----
(***************************************************************************)
(* slackfm: a Slack bot that mirrors a user's Last.fm "now playing" track  *)
(* into the Slack status.  The model covers the encrypted credential store *)
(* (src/src/db.rs), the command / OAuth handlers and the per-user worker   *)
(* tasks (src/src/main.rs) and the now-playing stream                      *)
(* (src/lib/src/lastfm.rs).                                                *)
(*                                                                         *)
(* Option<T> is written as a sequence: <<>> is None, <<x>> is Some(x).     *)
(***************************************************************************)
EXTENDS Integers, Sequences, FiniteSets, TLC

\* ------------------------------------------------------------------ bounds
\* CsrfToken::new_random values handed out by this process: 1..MaxCsrf.
MaxCsrf == 1
\* Tokio task cells that may exist at once.
MaxWorkers == 2
\* Failures of std::fs::write the environment injects in one run.
MaxFaults == 1

\* ------------------------------------------------------------- input sets
UserIds == {"U1", "U2"}
Usernames == {"alice"}
\* Passphrases; the process is configured with Key.
Keys == {"k1", "k2"}
Key == "k1"
\* Access tokens the authorization exchange may return.  They are plain
\* strings, so they may coincide with a CSRF secret.
AccessTokens == {1}
\* CSRF secrets of Pending records written by an earlier run of the process.
OldCsrf(id) == IF id = "U1" THEN 11 ELSE 12
\* The state parameters a callback may carry; 0 matches no record.
CsrfStates == (0..MaxCsrf) \cup {OldCsrf(id) : id \in UserIds}

Workers == 1..MaxWorkers

None == <<>>
Some(x) == <<x>>

VARIABLES
    phase,      \* run_server: "boot", "loaded", "pruned", "serving", "failed"
    disk,       \* the file db.json.enc
    db,         \* Db.db: platform user id -> UserData (behind an Arc<Mutex<_>>)
    tasks,      \* AppState.tasks: user id -> AbortHandle (a worker)
    workers,    \* worker -> state of the spawned update_user_data task
    nextCsrf,   \* the next fresh CsrfToken::new_random value
    resp,       \* what the last handler / startup step returned to its caller
    faults,     \* history: failed writes of the file so far
    obs,        \* history: what the last poll tick of a stream observed
    locks       \* who holds the store lock, the task-map lock and each
                \* record's lock, and where each code path stands in its
                \* sequence of lock operations

vars == <<phase, disk, db, tasks, workers, nextCsrf, resp, faults, obs, locks>>

\* ------------------------------------------------------------ UserData
Csrf(t) == <<"Csrf", t>>
Oauth(t) == <<"Oauth", t>>

UserData_new(lastfm_username, csrf) ==
    [lastfm_username |-> lastfm_username, slack_token |-> Csrf(csrf)]

\* A relink that starts the record over, as a first /connect does.
update_lastfm_username_as_new(u, lastfm_username) ==
    [lastfm_username |-> lastfm_username, slack_token |-> Csrf(0)]

update_lastfm_username(u, lastfm_username) ==
    [u EXCEPT !.lastfm_username = lastfm_username]

\* slack_token without the match on the variant.
slack_token_any_variant(u) == Some(u.slack_token[2])

slack_token(u) ==
    IF u.slack_token[1] = "Oauth" THEN Some(u.slack_token[2]) ELSE None

\* csrf_token without the match on the variant: the token of either state.
csrf_token_any_variant(u) == Some(u.slack_token[2])

csrf_token(u) ==
    IF u.slack_token[1] = "Csrf" THEN Some(u.slack_token[2]) ELSE None

\* A promotion that leaves the record as it was.
promote_token_forgotten(u, token) == u

promote_token(u, token) == [u EXCEPT !.slack_token = Oauth(token)]

EmptyMap == [id \in {} |-> 0]

\* The Arc<Mutex<UserData>> a task holds.  A record changes only through a
\* lookup in Db.db (update_lastfm_username, promote_token), so an Arc whose
\* record has left the map (remove_user, or add_user over the same key) has
\* a value that is fixed for good:
\*   Shared(key)    the very Arc stored in Db.db under key
\*   Detached(u)    an Arc no longer in Db.db, whose value is u
\*   NoArc          the task holds none (it has ended, or does not exist)
Shared(key) == <<"shared", key>>
Detached(u) == <<"detached", u>>
NoArc == <<"none">>

\* ser_token writing every token under the Csrf tag.
ser_token_one_tag(tok) == [Csrf |-> tok[2]]

\* ------------------------------------------------- serde_json of the map
\* #[derive(Serialize)] on SlackToken: an externally tagged enum.
ser_token(tok) ==
    IF tok[1] = "Oauth" THEN [Oauth |-> tok[2]] ELSE [Csrf |-> tok[2]]

ser_user(u) ==
    [lastfm_username |-> u.lastfm_username, slack_token |-> ser_token(u.slack_token)]

to_json(c) == [id \in DOMAIN c |-> ser_user(c[id])]

de_token(j) ==
    IF "Oauth" \in DOMAIN j THEN Oauth(j.Oauth) ELSE Csrf(j.Csrf)

de_user(j) ==
    [lastfm_username |-> j.lastfm_username, slack_token |-> de_token(j.slack_token)]

from_json(j) == [id \in DOMAIN j |-> de_user(j[id])]

\* ------------------------------------------------------- the file on disk
Absent == <<"absent">>
\* A file that is no age file: empty, truncated or overwritten.
Corrupt == <<"corrupt">>
\* An age passphrase-encrypted file and its plaintext.
Age(k, body) == <<"age", k, body>>
Json(j) == <<"json", j>>
Garbage == <<"garbage">>

\* to_encrypted_file dropping the error of a file it could not open.
to_encrypted_file_ignoring_create(c, k, old, fault) ==
    IF fault = "none" THEN [res |-> "Ok", disk |-> Age(k, Json(to_json(c)))]
    ELSE IF fault = "create" THEN [res |-> "Ok", disk |-> old]
    ELSE [res |-> "IoError", disk |-> Corrupt]

\* Db::to_encrypted_file: the result and the file afterwards.  fault is what
\* std::fs::write meets: "none", "create" (the file cannot be opened for
\* writing) or "write" (it was truncated, then the write failed).
to_encrypted_file(c, k, old, fault) ==
    IF fault = "none" THEN [res |-> "Ok", disk |-> Age(k, Json(to_json(c)))]
    ELSE IF fault = "create" THEN [res |-> "IoError", disk |-> old]
    ELSE [res |-> "IoError", disk |-> Corrupt]

Faults == {"none", "create", "write"}

\* The environment's side of one call of to_encrypted_file.
Injected(fault) ==
    /\ fault # "none" => faults < MaxFaults
    /\ faults' = IF fault = "none" THEN faults ELSE faults + 1

\* from_encrypted_file falling back to an empty store when decryption fails.
from_encrypted_file_or_default(file, k) ==
    IF file = Absent THEN [res |-> "Ok", db |-> EmptyMap]
    ELSE IF file = Corrupt THEN [res |-> "Ok", db |-> EmptyMap]
    ELSE IF file[2] # k THEN [res |-> "Ok", db |-> EmptyMap]
    ELSE IF file[3] = Garbage THEN [res |-> "SerdeError", db |-> EmptyMap]
    ELSE [res |-> "Ok", db |-> from_json(file[3][2])]

\* Db::from_encrypted_file: the result and the loaded map.
from_encrypted_file(file, k) ==
    IF file = Absent THEN [res |-> "Ok", db |-> EmptyMap]
    ELSE IF file = Corrupt THEN [res |-> "EncryptionError", db |-> EmptyMap]
    ELSE IF file[2] # k THEN [res |-> "EncryptionError", db |-> EmptyMap]
    ELSE IF file[3] = Garbage THEN [res |-> "SerdeError", db |-> EmptyMap]
    ELSE [res |-> "Ok", db |-> from_json(file[3][2])]

\* ------------------------------------------------------------ small maps
Range(f) == {f[x] : x \in DOMAIN f}
MapPut(f, k, v) == [x \in DOMAIN f \cup {k} |-> IF x = k THEN v ELSE f[x]]
MapDel(f, k) == [x \in DOMAIN f \ {k} |-> f[x]]
\* A filter that lets every record through.
Restrict_nothing(f, S) == f
Restrict(f, S) == [x \in DOMAIN f \cap S |-> f[x]]
Min(S) == CHOOSE x \in S : \A y \in S : x <= y

\* ------------------------------------------------------- now-playing stream
\* RecentTrack, restricted to the fields the stream and the worker read
\* (album and image_url are carried along and never inspected).
Track(mbid, name, artist, playing) ==
    [mbid |-> mbid, name |-> name, artist |-> artist, is_now_playing |-> playing]

\* What get_user_recent_tracks returns: <<"Err">> or <<"Ok", track list>>.
FetchErr == <<"Err">>
FetchOk(tracks) == <<"Ok", tracks>>

\* tracks.into_iter().find(|track| track.is_now_playing)
find_now_playing(tracks) ==
    LET idx == {i \in 1..Len(tracks) : tracks[i].is_now_playing}
    IN IF idx = {} THEN None ELSE Some(tracks[Min(idx)])

\* The items a stream hands to its consumer; NoItem: nothing in hand.
NoItem == <<"NoItem">>
ErrItem == <<"Err">>
OkItem(payload) == <<"Ok", payload>>

\* The match keeping last_playing when the track stops.
compare_keeping_stopped(now_playing, last_playing) ==
    LET quiet == [last |-> last_playing, yield |-> None]
        changed == [last |-> now_playing, yield |-> Some(now_playing)]
    IN IF now_playing = None /\ last_playing = None THEN quiet
       ELSE IF last_playing = None THEN changed
       ELSE IF now_playing = None THEN [last |-> last_playing, yield |-> Some(None)]
       ELSE LET playing == now_playing[1]
                last == last_playing[1]
            IN IF playing.mbid # ""
               THEN (IF playing.mbid # last.mbid THEN changed ELSE quiet)
               ELSE IF playing.name # last.name THEN changed ELSE quiet

\* The match comparing two tracks by name only.
compare_by_name(now_playing, last_playing) ==
    LET quiet == [last |-> last_playing, yield |-> None]
        changed == [last |-> now_playing, yield |-> Some(now_playing)]
    IN IF now_playing = None /\ last_playing = None THEN quiet
       ELSE IF last_playing = None THEN changed
       ELSE IF now_playing = None THEN [last |-> None, yield |-> Some(None)]
       ELSE IF now_playing[1].name # last_playing[1].name THEN changed ELSE quiet

\* The match yielding a changed track without retaining it.
compare_not_retaining(now_playing, last_playing) ==
    LET quiet == [last |-> last_playing, yield |-> None]
        changed == [last |-> last_playing, yield |-> Some(now_playing)]
    IN IF now_playing = None /\ last_playing = None THEN quiet
       ELSE IF last_playing = None THEN [last |-> now_playing, yield |-> Some(now_playing)]
       ELSE IF now_playing = None THEN [last |-> None, yield |-> Some(None)]
       ELSE LET playing == now_playing[1]
                last == last_playing[1]
            IN IF playing.mbid # ""
               THEN (IF playing.mbid # last.mbid THEN changed ELSE quiet)
               ELSE IF playing.name # last.name THEN changed ELSE quiet

\* The match yielding whatever is playing, changed or not.
compare_without_dedup(now_playing, last_playing) ==
    IF now_playing = None /\ last_playing = None
    THEN [last |-> None, yield |-> None]
    ELSE [last |-> now_playing, yield |-> Some(now_playing)]

\* The match of one poll tick: the new last_playing and the payload yielded
\* (None: nothing yielded; Some(p): p was yielded, p an Option<RecentTrack>).
compare_now_playing(now_playing, last_playing) ==
    LET quiet == [last |-> last_playing, yield |-> None]
        changed == [last |-> now_playing, yield |-> Some(now_playing)]
    IN IF now_playing = None /\ last_playing = None THEN quiet
       ELSE IF last_playing = None THEN changed
       ELSE IF now_playing = None THEN [last |-> None, yield |-> Some(None)]
       ELSE LET playing == now_playing[1]
                last == last_playing[1]
            IN IF playing.mbid # ""
               THEN (IF playing.mbid # last.mbid THEN changed ELSE quiet)
               ELSE IF playing.name # last.name THEN changed ELSE quiet

\* ------------------------------------------------------------- Slack push
\* The arguments of one slack::Client::update_user_status call.
StatusArgs(text, emoji, duration) ==
    [status_text |-> text, status_emoji |-> emoji, status_duration |-> duration]

\* The status text with its two arguments swapped.
format_status_artist_first(track) == track.artist \o " - " \o track.name

\* format!("{} - {}", track.name(), track.artist())
format_status(track) == track.name \o " - " \o track.artist

\* The call update_user_data makes for a yielded payload.
status_for(payload) ==
    IF payload # None
    THEN StatusArgs(Some(format_status(payload[1])), Some(":music:"), None)
    ELSE StatusArgs(Some(""), Some(""), None)

\* ------------------------------------------------------------ worker tasks
\* pc: where the task is suspended.
\*   "free"      no such task
\*   "spawned"   spawned, not polled yet
\*   "sleeping"  in tokio::time::sleep at the top of the stream's loop
\*   "fetching"  in get_user_recent_tracks
\*   "push_get"  in update_user_status, awaiting users_profile_get
\*   "push_set"  in update_user_status, awaiting users_profile_set
\*   "finished"  update_user_data returned
\*   "cancelled" the task was dropped after AbortHandle::abort
FreeWorker ==
    [pc |-> "free", user_id |-> "", user_data |-> NoArc, aborted |-> FALSE,
     lastfm_username |-> "", last_playing |-> None, stream_done |-> FALSE,
     item |-> NoItem, push |-> None]

NewWorker(user_id, user_data) ==
    [FreeWorker EXCEPT !.pc = "spawned", !.user_id = user_id, !.user_data = user_data]

Terminated(w) == w.pc \in {"finished", "cancelled"}
Awaiting(w) == w.pc \in {"spawned", "sleeping", "fetching", "push_get", "push_set"}
\* A task that exists, has not ended and has not been told to stop.
Live(w) == Awaiting(w) /\ ~w.aborted

\* A task that ends drops its future, and with it the Arc it held.
Ended(w, pc) ==
    [FreeWorker EXCEPT !.pc = pc, !.user_id = w.user_id, !.aborted = w.aborted,
                       !.stream_done = w.stream_done]

\* Tokio frees a task cell once the task has ended and no handle is left.
ReapTasks(ws, ts) ==
    [w \in Workers |->
        IF Terminated(ws[w]) /\ w \notin Range(ts) THEN FreeWorker ELSE ws[w]]

\* The record under key leaves Db.db: the tasks that share it keep its value.
Detach(ws, d, key) ==
    [w \in Workers |->
        IF ws[w].user_data = Shared(key)
        THEN [ws[w] EXCEPT !.user_data = Detached(d[key])]
        ELSE ws[w]]

\* user_data.lock().unwrap(): the value behind a task's Arc.
Locked(arc, d) == IF arc[1] = "shared" THEN d[arc[2]] ELSE arc[2]

\* The cells a task spawned for key may take: a free one, or the one that
\* HashMap::insert is about to release by dropping key's old handle.
SpawnSlots(ws, ts, key) ==
    {w \in Workers : ReapTasks(ws, MapDel(ts, key))[w].pc = "free"}

\* AbortHandle::abort: no effect on a task that has ended.
abort(w) == IF Awaiting(w) THEN [w EXCEPT !.aborted = TRUE] ELSE w

\* ----------------------------------------------------- update_user_data
\* A runtime that resumes a task whatever was requested of it.
Resumable_ignoring_abort(w) == workers[w].pc # "free"

\* Every step runs from one suspension point of the task to the next; a task
\* whose abort was requested is dropped instead of being resumed.
Resumable(w) == workers[w].pc # "free" /\ ~workers[w].aborted

SetWorker(w, new) ==
    /\ workers' = ReapTasks([workers EXCEPT ![w] = new], tasks)
    /\ UNCHANGED <<phase, disk, db, tasks, nextCsrf, resp, faults, locks>>

\* A stream whose loop fetches first and sleeps afterwards.
WorkerStart_fetch_first(w) ==
    /\ Resumable(w) /\ workers[w].pc = "spawned"
    /\ LET user_data == Locked(workers[w].user_data, db)
       IN IF slack_token(user_data) = None
          THEN SetWorker(w, Ended(workers[w], "finished"))
          ELSE SetWorker(w, [workers[w] EXCEPT
                   !.pc = "fetching",
                   !.lastfm_username = user_data.lastfm_username])
    /\ UNCHANGED obs

\* First poll of the task: read the record, return if it has no slack token,
\* else build the stream and enter its loop, which sleeps first.
WorkerStart(w) ==
    /\ Resumable(w) /\ workers[w].pc = "spawned"
    /\ LET user_data == Locked(workers[w].user_data, db)
       IN IF slack_token(user_data) = None
          THEN SetWorker(w, Ended(workers[w], "finished"))
          ELSE SetWorker(w, [workers[w] EXCEPT
                   !.pc = "sleeping",
                   !.lastfm_username = user_data.lastfm_username])
    /\ UNCHANGED obs

\* tokio::time::sleep(polling_interval) elapsed: start the fetch.
SleepDone(w) ==
    /\ Resumable(w) /\ workers[w].pc = "sleeping"
    /\ SetWorker(w, [workers[w] EXCEPT !.pc = "fetching"])
    /\ UNCHANGED obs

\* A consumer that starts the presence push and polls the stream again
\* without waiting for the push to return.
FetchDone_push_detached(w, res) ==
    /\ Resumable(w) /\ workers[w].pc = "fetching"
    /\ IF res = FetchErr
       THEN SetWorker(w, Ended([workers[w] EXCEPT !.stream_done = TRUE], "finished"))
       ELSE LET c == compare_now_playing(find_now_playing(res[2]),
                                        workers[w].last_playing)
            IN IF c.yield = None
               THEN SetWorker(w, [workers[w] EXCEPT
                        !.pc = "sleeping", !.last_playing = c.last])
               ELSE SetWorker(w, [workers[w] EXCEPT
                        !.pc = "sleeping", !.last_playing = c.last,
                        !.item = OkItem(c.yield[1]),
                        !.push = Some(status_for(c.yield[1]))])

\* get_user_recent_tracks returned res.  Err: `?` inside try_stream! yields
\* the error as the stream's last item, the worker logs it and its next
\* stream.next() is None, so update_user_data returns.  Ok: one match of the
\* stream; a yielded payload starts update_user_status, no payload loops back
\* to the sleep.
FetchDone(w, res) ==
    /\ Resumable(w) /\ workers[w].pc = "fetching"
    /\ IF res = FetchErr
       THEN SetWorker(w, Ended([workers[w] EXCEPT !.stream_done = TRUE], "finished"))
       ELSE LET c == compare_now_playing(find_now_playing(res[2]),
                                        workers[w].last_playing)
            IN IF c.yield = None
               THEN SetWorker(w, [workers[w] EXCEPT
                        !.pc = "sleeping", !.last_playing = c.last])
               ELSE SetWorker(w, [workers[w] EXCEPT
                        !.pc = "push_get", !.last_playing = c.last,
                        !.item = OkItem(c.yield[1]),
                        !.push = Some(status_for(c.yield[1]))])

\* users_profile_get returned: on error update_user_status returns Err, the
\* worker logs it and polls the stream again.
PushGetDone(w, ok) ==
    /\ Resumable(w) /\ workers[w].pc = "push_get"
    /\ IF ok
       THEN SetWorker(w, [workers[w] EXCEPT !.pc = "push_set"])
       ELSE SetWorker(w, [workers[w] EXCEPT
                !.pc = "sleeping", !.item = NoItem, !.push = None])
    /\ UNCHANGED obs

\* users_profile_set returned (either way the worker polls the stream again).
PushSetDone(w, ok) ==
    /\ Resumable(w) /\ workers[w].pc = "push_set"
    /\ SetWorker(w, [workers[w] EXCEPT
           !.pc = "sleeping", !.item = NoItem, !.push = None])
    /\ UNCHANGED obs

\* The runtime drops a task whose abort was requested at its suspension point.
Cancelled(w) ==
    /\ workers[w].aborted /\ Awaiting(workers[w])
    /\ SetWorker(w, Ended(workers[w], "cancelled"))
    /\ UNCHANGED obs

\* ------------------------------------------------------------------ Db
\* Db::add_user, Db::remove_user: the map operation (the callers persist).
add_user(d, username, data) == MapPut(d, username, data)
remove_user(d, username) == MapDel(d, username)

\* Db::user_with_csrf: the Arcs a `find` over the HashMap may return (its
\* iteration order is arbitrary); empty: None.
user_with_csrf(d, state) ==
    {id \in DOMAIN d : csrf_token(d[id]) = Some(state)}

\* What a handler or a startup step handed back to its caller, and for whom:
\* user is the event's user id (connect, disconnect), authed_user.id (auth)
\* or, for map_db, the ids whose does_user_exist answered Ok(true).
Resp(op, user, result) == [op |-> op, user |-> user, result |-> result]

\* ------------------------------------------------------------- startup
Ord(id) == IF id = "U1" THEN 1 ELSE 2

\* run_server: Db::from_encrypted_file; an error ends the process.
Load ==
    /\ phase = "boot"
    /\ LET r == from_encrypted_file(disk, Key)
       IN /\ resp' = Resp("load", "", r.res)
          /\ phase' = IF r.res = "Ok" THEN "loaded" ELSE "failed"
          /\ db' = r.db
    /\ UNCHANGED <<disk, tasks, workers, nextCsrf, faults, obs, locks>>

\* spawn_initial_updaters, first half: Db::map_db keeps the records whose
\* does_user_exist answered Ok(true) (keep), then persists.
PruneUsers(keep, fault) ==
    /\ phase = "loaded"
    /\ keep \subseteq DOMAIN db
    /\ LET final_db == Restrict(db, keep)
           wr == to_encrypted_file(final_db, Key, disk, fault)
       IN /\ db' = final_db
          /\ disk' = wr.disk
          /\ resp' = Resp("map_db", keep, wr.res)
          /\ phase' = IF wr.res = "Ok" THEN "pruned" ELSE "failed"
    /\ Injected(fault)
    /\ UNCHANGED <<tasks, workers, nextCsrf, obs, locks>>

\* spawn_initial_updaters, second half: one task per record of db.users(),
\* its handle inserted under the record's key; then the server starts.
SpawnInitial ==
    /\ phase = "pruned"
    /\ workers' = [w \in Workers |->
          IF \E id \in DOMAIN db : Ord(id) = w
          THEN LET id == CHOOSE i \in DOMAIN db : Ord(i) = w
               IN NewWorker(id, Shared(id))
          ELSE workers[w]]
    /\ tasks' = [id \in DOMAIN db |-> Ord(id)]
    /\ phase' = "serving"
    /\ resp' = Resp("spawn_initial_updaters", "", "Ok")
    /\ UNCHANGED <<disk, db, nextCsrf, faults, obs, locks>>

\* ------------------------------------------------------------- handlers
\* A handler holds the store lock from its first store access to its return,
\* so handlers do not interleave with one another.

\* /connect.  text: event.text; exists: does_user_exist(..).unwrap_or(false).
ConnectHandler(id, text, exists, fault) ==
    /\ phase = "serving"
    /\ IF text = None \/ text = Some("")
       THEN /\ resp' = Resp("connect", id, "No username found")
            /\ UNCHANGED <<disk, db, tasks, workers, nextCsrf, faults>>
       ELSE IF ~exists
       THEN /\ resp' = Resp("connect", id, "username not valid")
            /\ UNCHANGED <<disk, db, tasks, workers, nextCsrf, faults>>
       ELSE IF id \in DOMAIN db /\ slack_token(db[id]) # None
       THEN LET d2 == [db EXCEPT ![id] = update_lastfm_username(@, text[1])]
                wr == to_encrypted_file(d2, Key, disk, fault)
            IN /\ db' = d2
               /\ disk' = wr.disk
               /\ resp' = Resp("connect", id,
                               IF wr.res = "Ok" THEN "Updated" ELSE "panic")
               /\ Injected(fault)
               /\ UNCHANGED <<tasks, workers, nextCsrf>>
       ELSE /\ nextCsrf <= MaxCsrf
            /\ LET d2 == add_user(db, id, UserData_new(text[1], nextCsrf))
                   wr == to_encrypted_file(d2, Key, disk, fault)
               IN /\ db' = d2
                  /\ disk' = wr.disk
                  /\ resp' = Resp("connect", id,
                                  IF wr.res = "Ok" THEN "Please visit" ELSE "Error adding")
            /\ workers' = IF id \in DOMAIN db THEN Detach(workers, db, id) ELSE workers
            /\ nextCsrf' = nextCsrf + 1
            /\ Injected(fault)
            /\ UNCHANGED tasks
    /\ UNCHANGED <<phase, obs, locks>>

\* GET /auth.  state: code.state; exch: the answer of the code exchange,
\* <<"Err">> or <<"Ok", access_token, authed_user.id>>.
OauthHandler(state, exch, fault) ==
    /\ phase = "serving"
    /\ LET found == user_with_csrf(db, state)
       IN IF found = {}
          THEN /\ resp' = Resp("auth", "", "CSRF couldn't be linked")
               /\ UNCHANGED <<disk, db, tasks, workers, faults>>
          ELSE \E user_arc \in found :
               IF exch = <<"Err">>
               THEN /\ resp' = Resp("auth", "", "panic")
                    /\ UNCHANGED <<disk, db, tasks, workers, faults>>
               ELSE LET user_token == exch[2]
                        user_id == exch[3]
                        d2 == [db EXCEPT ![user_arc] = promote_token(@, user_token)]
                        wr == to_encrypted_file(d2, Key, disk, fault)
                    IN IF wr.res # "Ok"
                       THEN /\ Injected(fault)
                            /\ db' = d2
                            /\ disk' = wr.disk
                            /\ resp' = Resp("auth", user_id, "panic")
                            /\ UNCHANGED <<tasks, workers>>
                       ELSE /\ Injected(fault)
                            /\ SpawnSlots(workers, tasks, user_id) # {}
                            /\ LET w == Min(SpawnSlots(workers, tasks, user_id))
                                   ts == MapPut(tasks, user_id, w)
                               IN /\ tasks' = ts
                                  /\ workers' = ReapTasks(
                                        [workers EXCEPT
                                            ![w] = NewWorker(user_id, Shared(user_arc))],
                                        ts)
                            /\ db' = d2
                            /\ disk' = wr.disk
                            /\ resp' = Resp("auth", user_id, "Authenticated!")
    /\ UNCHANGED <<phase, nextCsrf, obs, locks>>

\* /disconnect.
DisconnectHandler(id, fault) ==
    /\ phase = "serving"
    /\ LET user == IF id \in DOMAIN db THEN Some(db[id]) ELSE None
           d2 == remove_user(db, id)
           ws == IF user = None THEN workers ELSE Detach(workers, db, id)
           wr == to_encrypted_file(d2, Key, disk, fault)
       IN /\ db' = d2
          /\ disk' = wr.disk
          /\ IF wr.res # "Ok"
             THEN /\ resp' = Resp("disconnect", id, "Error disconnecting")
                  /\ workers' = ws
                  /\ UNCHANGED tasks
             ELSE IF user = None
             THEN /\ resp' = Resp("disconnect", id, "not found")
                  /\ workers' = ws
                  /\ UNCHANGED tasks
             ELSE IF id \notin DOMAIN tasks
             THEN /\ resp' = Resp("disconnect", id, "panic")
                  /\ workers' = ws
                  /\ UNCHANGED tasks
             ELSE /\ tasks' = MapDel(tasks, id)
                  /\ workers' = ReapTasks(
                        [ws EXCEPT ![tasks[id]] = abort(@)], tasks')
                  /\ resp' = Resp("disconnect", id, "Disconnected")
    /\ Injected(fault)
    /\ UNCHANGED <<phase, nextCsrf, obs, locks>>

\* -------------------------------------------------------------- locking
\* The locks of the program: the tokio Mutex of the store (AppState.db), the
\* tokio Mutex of the task map (AppState.tasks) and the std Mutex of each
\* record, named by the record's key.
StoreLock == "db"
TasksLock == "tasks"
LockNames == {StoreLock, TasksLock} \cup UserIds

\* The code paths that take locks: startup, one request of each handler, one
\* update_user_data task per record.
Handler(name) == <<"handler", name>>
Task(id) == <<"task", id>>
Procs ==
    {Handler(n) : n \in {"startup", "connect", "disconnect", "auth"}}
    \cup {Task(id) : id \in UserIds}

Unlocked == <<"nobody", "">>
Idle == [path |-> <<>>, i |-> 1]
NoLocks ==
    [owner |-> [l \in LockNames |-> Unlocked], run |-> [p \in Procs |-> Idle]]

\* The operations of a path: lock().await / lock().unwrap(), the drop of the
\* guard, tokio::task::spawn of the task of a record, the end of startup.
Acq(l) == <<"acq", l>>
Rel(l) == <<"rel", l>>
SpawnOp(id) == <<"spawn", id>>
Exit(ph) == <<"exit", ph>>

\* user.lock().unwrap().method(): the guard is a temporary of the statement.
with_record(id) == <<Acq(id), Rel(id)>>

\* An iteration over the map that locks one record at a time: Mutex's
\* Serialize in to_encrypted_file, the find of user_with_csrf, the filter
\* of spawn_initial_updaters.
RECURSIVE each_record(_)
each_record(records) ==
    IF records = <<>> THEN <<>>
    ELSE with_record(Head(records)) \o each_record(Tail(records))

\* The orders in which a HashMap holding some of the records iterates.
RecordOrders ==
    {<<>>} \cup {<<a>> : a \in UserIds}
    \cup {r \in UserIds \X UserIds : r[1] # r[2]}

\* A disconnect that takes the task map before the store.
disconnect_handler_locks_tasks_first(records) ==
    { <<Acq(TasksLock), Acq(StoreLock)>> \o each_record(records)
          \o <<Rel(TasksLock), Rel(StoreLock)>> }

\* disconnect_handler: the store lock, remove_user (which persists), then on
\* Ok(Some) the task map for the length of one statement.
disconnect_handler_locks(records) ==
    { <<Acq(StoreLock)>> \o each_record(records)
          \o <<Acq(TasksLock), Rel(TasksLock), Rel(StoreLock)>>,
      <<Acq(StoreLock)>> \o each_record(records) \o <<Rel(StoreLock)>>,
      <<Acq(StoreLock), Rel(StoreLock)>> }

\* connect_handler past its early returns: the store lock, the filter on the
\* caller's record if it has one, then the update of that record or
\* add_user, and the persist.  A panic of the persist drops the guard.
connect_handler_locks(records) ==
    { <<Acq(StoreLock)>> \o each_record(records) \o <<Rel(StoreLock)>> }
    \cup UNION {
        { <<Acq(StoreLock)>> \o with_record(id) \o with_record(id)
              \o each_record(records) \o <<Rel(StoreLock)>>,
          <<Acq(StoreLock)>> \o with_record(id)
              \o each_record(records) \o <<Rel(StoreLock)>> }
        : id \in {records[k] : k \in DOMAIN records} }

\* oauth_handler: the store lock, user_with_csrf; when it found the record
\* at position k of the iteration: the exchange (a panic drops the guard),
\* promote_token, the persist (likewise), the spawn, the task map.
oauth_handler_locks(records) ==
    { <<Acq(StoreLock)>> \o each_record(records) \o <<Rel(StoreLock)>> }
    \cup UNION {
        LET scan == <<Acq(StoreLock)>> \o each_record(SubSeq(records, 1, k))
            user_arc == records[k]
        IN { scan \o <<Rel(StoreLock)>>,
             scan \o with_record(user_arc) \o each_record(records)
                 \o <<Rel(StoreLock)>>,
             scan \o with_record(user_arc) \o each_record(records)
                 \o <<SpawnOp(user_arc), Acq(TasksLock), Rel(TasksLock),
                      Rel(StoreLock)>> }
        : k \in DOMAIN records }

\* One iteration of the loop of spawn_initial_updaters per kept record.
RECURSIVE spawn_each(_)
spawn_each(kept) ==
    IF kept = <<>> THEN <<>>
    ELSE <<SpawnOp(Head(kept)), Acq(TasksLock), Rel(TasksLock)>>
         \o spawn_each(Tail(kept))

\* spawn_initial_updaters: the store lock for the whole function; map_db's
\* filter, its persist over the records kept, then the spawns.
spawn_initial_updaters_locks(records) ==
    UNION {
        LET pruned == <<Acq(StoreLock)>> \o each_record(records) \o each_record(kept)
        IN { pruned \o <<Rel(StoreLock), Exit("failed")>>,
             pruned \o spawn_each(kept) \o <<Rel(StoreLock), Exit("serving")>> }
        : kept \in {r \in RecordOrders :
                      {r[k] : k \in DOMAIN r} \subseteq {records[k] : k \in DOMAIN records}} }

\* update_user_data: the task reads its record once, in a block.
update_user_data_locks(id) == with_record(id)

\* The paths a code path may enter when it is not running.
Entry(p) ==
    IF p = Handler("startup")
    THEN IF phase = "boot"
         THEN UNION {spawn_initial_updaters_locks(r) : r \in RecordOrders}
         ELSE {}
    ELSE IF phase # "serving" THEN {}
    ELSE IF p = Handler("connect")
    THEN UNION {connect_handler_locks(r) : r \in RecordOrders}
    ELSE IF p = Handler("disconnect")
    THEN UNION {disconnect_handler_locks(r) : r \in RecordOrders}
    ELSE IF p = Handler("auth")
    THEN UNION {oauth_handler_locks(r) : r \in RecordOrders}
    ELSE {}

Busy(p) == locks.run[p].path # <<>>
Held(p) == {l \in LockNames : locks.owner[l] = p}

\* A lock is taken only when nobody holds it (neither Mutex is reentrant).
Executable(op) == op[1] = "acq" => locks.owner[op[2]] = Unlocked

\* p executes the operation at position i of path.
Execute(p, path, i) ==
    LET op == path[i]
        after == IF i = Len(path) THEN Idle ELSE [path |-> path, i |-> i + 1]
        run == [locks.run EXCEPT ![p] = after]
    IN /\ Executable(op)
       /\ locks' =
            IF op[1] = "acq"
            THEN [owner |-> [locks.owner EXCEPT ![op[2]] = p], run |-> run]
            ELSE IF op[1] = "rel"
            THEN [owner |-> [locks.owner EXCEPT ![op[2]] = Unlocked], run |-> run]
            ELSE IF op[1] = "spawn" /\ run[Task(op[2])] = Idle
            THEN [owner |-> locks.owner,
                  run |-> [run EXCEPT ![Task(op[2])] =
                              [path |-> update_user_data_locks(op[2]), i |-> 1]]]
            ELSE [owner |-> locks.owner, run |-> run]
       /\ phase' = IF op[1] = "exit" THEN op[2] ELSE phase

\* The next operation of a running path, or the first one of a path entered.
LockStep(p) ==
    /\ IF Busy(p)
       THEN Execute(p, locks.run[p].path, locks.run[p].i)
       ELSE \E path \in Entry(p) : Execute(p, path, 1)
    /\ UNCHANGED <<disk, db, tasks, workers, nextCsrf, resp, faults, obs>>

\* ------------------------------------------------------- specification
\* Stores an earlier run of the process may have left on disk: an empty one,
\* and one with an Authorized and a Pending record.
OldStore ==
    [id \in UserIds |->
        IF id = "U1"
        THEN [lastfm_username |-> "alice", slack_token |-> Oauth(9)]
        ELSE UserData_new("alice", OldCsrf(id))]

InitStores == {EmptyMap, OldStore}

InitFiles ==
    {Absent, Corrupt, Age(Key, Garbage), Age("k2", Json(to_json(OldStore)))}
    \cup {Age(Key, Json(to_json(c))) : c \in InitStores}

Unset == <<"unset">>

Init ==
    /\ phase = "boot"
    /\ disk \in InitFiles
    /\ db = EmptyMap
    /\ tasks = EmptyMap
    /\ workers = [w \in Workers |-> FreeWorker]
    /\ nextCsrf = 1
    /\ resp = Resp("none", "", "none")
    /\ faults = 0
    /\ obs = [prev |-> Unset, cur |-> Unset]
    /\ locks = NoLocks

\* Poll answers of the system specification: a failure, or one fixed track
\* playing.
Song1 == Track("", "Song1", "X", TRUE)
FetchResults == {FetchErr, FetchOk(<<Song1>>)}

Texts == {None, Some("")} \cup {Some(n) : n \in Usernames}
Exchanges == {<<"Err">>} \cup {<<"Ok", t, id>> : t \in AccessTokens, id \in UserIds}

Poll(w) == \E res \in FetchResults : FetchDone(w, res) /\ UNCHANGED obs

\* What a poll tick observed: the failure, or the track flagged as playing.
Observed(res) ==
    IF res = FetchErr THEN <<"Err">> ELSE <<"Ok", find_now_playing(res[2])>>

Prune == \E keep \in SUBSET UserIds, fault \in Faults : PruneUsers(keep, fault)
\* Inputs a handler never reads on the path it takes are held at one value.
Connect ==
    \E id \in UserIds, text \in Texts, exists \in BOOLEAN, fault \in Faults :
        /\ (text \in {None, Some("")}) => exists
        /\ (text \in {None, Some("")} \/ ~exists) => fault = "none"
        /\ ConnectHandler(id, text, exists, fault)
Auth ==
    \E state \in CsrfStates, exch \in Exchanges, fault \in Faults :
        /\ (user_with_csrf(db, state) = {} \/ exch = <<"Err">>) => fault = "none"
        /\ user_with_csrf(db, state) = {} => exch = <<"Err">>
        /\ OauthHandler(state, exch, fault)
Disconnect == \E id \in UserIds, fault \in Faults : DisconnectHandler(id, fault)
Start == \E w \in Workers : WorkerStart(w)
Wake == \E w \in Workers : SleepDone(w)
Fetched == \E w \in Workers : Poll(w)
ProfileGot == \E w \in Workers, ok \in BOOLEAN : PushGetDone(w, ok)
ProfileSet == \E w \in Workers, ok \in BOOLEAN : PushSetDone(w, ok)
Dropped == \E w \in Workers : Cancelled(w)

Next ==
    \/ Load
    \/ Prune
    \/ SpawnInitial
    \/ Connect
    \/ Auth
    \/ Disconnect
    \/ Start
    \/ Wake
    \/ Fetched
    \/ ProfileGot
    \/ ProfileSet
    \/ Dropped

Spec == Init /\ [][Next]_vars

\* --------------------------------------------- one worker, any track list
\* The state after U1 linked "alice" and authorized on a fresh store: its
\* worker has been spawned and has not run yet.
StreamInit ==
    /\ phase = "serving"
    /\ db = [id \in {"U1"} |-> promote_token(UserData_new("alice", 1), 1)]
    /\ disk = Age(Key, Json(to_json(db)))
    /\ tasks = [id \in {"U1"} |-> 1]
    /\ workers = [w \in Workers |->
          IF w = 1 THEN NewWorker("U1", Shared("U1")) ELSE FreeWorker]
    /\ nextCsrf = 2
    /\ resp = Resp("auth", "U1", "Authenticated!")
    /\ faults = 0
    /\ obs = [prev |-> Unset, cur |-> Unset]
    /\ locks = NoLocks

\* Track lists get_user_recent_tracks may return: up to MaxTracks tracks.
MaxTracks == 2
Mbids == {"", "m1", "m2"}
Names == {"Song1", "Song2"}
Tracks == {Track(m, n, "X", p) : m \in Mbids, n \in Names, p \in BOOLEAN}
TrackLists == UNION {[1..n -> Tracks] : n \in 0..MaxTracks}
AnyFetchResult == {FetchErr} \cup {FetchOk(l) : l \in TrackLists}

ObservedPoll(w) ==
    \E res \in AnyFetchResult :
        /\ FetchDone(w, res)
        /\ obs' = [prev |-> obs.cur, cur |-> Observed(res)]

StreamFetched == \E w \in Workers : ObservedPoll(w)

StreamNext ==
    \/ Start
    \/ Wake
    \/ StreamFetched
    \/ ProfileGot
    \/ ProfileSet

StreamSpec == StreamInit /\ [][StreamNext]_vars

\* ================================================================ claims
Authorized(u) == slack_token(u) # None
Pending(u) == csrf_token(u) # None

\* The plaintext map j lists exactly the records of d, field by field.
SameRecords(j, d) ==
    /\ DOMAIN j = DOMAIN d
    /\ \A id \in DOMAIN d :
        /\ j[id].lastfm_username = d[id].lastfm_username
        /\ DOMAIN j[id].slack_token = {d[id].slack_token[1]}
        /\ j[id].slack_token[d[id].slack_token[1]] = d[id].slack_token[2]

\* The file is an age file under the process passphrase holding the map d.
OnDisk(d) ==
    /\ disk[1] = "age"
    /\ disk[2] = Key
    /\ disk[3][1] = "json"
    /\ SameRecords(disk[3][2], d)

LiveTasks(id) == {w \in Workers : Live(workers[w]) /\ workers[w].user_id = id}

\* C1: every platform user id has at most one live worker task (a task that
\* has not ended and whose cancellation has not been requested).
C1_AtMostOneTask == \A id \in UserIds : Cardinality(LiveTasks(id)) <= 1

\* The single stream of StreamSpec.
TheWorker == workers[1]

\* C2: a poll tick whose fetch failed does not terminate the stream.
C2_StreamSurvivesError == obs.cur = <<"Err">> => ~TheWorker.stream_done

\* C3: a worker that received an Error event has not terminated (it is back
\* in its stream, waiting for the next tick).
C3_WorkerSurvivesError == obs.cur = <<"Err">> => TheWorker.pc = "sleeping"

\* A step of StreamSpec that is a poll tick with a successful fetch.
OkTick ==
    /\ TheWorker.pc = "fetching"
    /\ TheWorker'.pc # "fetching"
    /\ obs'.cur[1] = "Ok"

\* C4: absence transitions of the comparison step.  With current the track
\* observed by the tick and last the retained snapshot before it:
\* (absent, absent) emits nothing and leaves last absent; (X, absent) emits
\* Changed(Some(X)) and sets last to X; (absent, X) emits Changed(None) and
\* sets last to absent; (X, X) emits nothing.
C4_AbsenceStep ==
    OkTick =>
        LET current == obs'.cur[2]
            last == TheWorker.last_playing
        IN /\ (current = None /\ last = None) =>
                (TheWorker'.item = NoItem /\ TheWorker'.last_playing = None)
           /\ (current # None /\ last = None) =>
                (TheWorker'.item = OkItem(current) /\ TheWorker'.last_playing = current)
           /\ (current = None /\ last # None) =>
                (TheWorker'.item = OkItem(None) /\ TheWorker'.last_playing = None)
           /\ (current # None /\ current = last) => TheWorker'.item = NoItem

C4_AbsenceTransitions == [][C4_AbsenceStep]_vars

\* A Changed(None) was emitted: the tick saw nothing playing after a track.
C4_Witness ==
    /\ obs.cur = <<"Ok", None>>
    /\ obs.prev[1] = "Ok" /\ obs.prev[2] # None
    /\ TheWorker.item = OkItem(None)
    /\ TheWorker.last_playing = None

\* C5: track-id precedence.  With both current and last present: if
\* current.mbid is non-empty, Changed(Some(current)) is emitted exactly when
\* the mbids differ, whatever the titles; if it is empty, exactly when the
\* titles differ, whatever last.mbid.
C5_PrecedenceStep ==
    (OkTick /\ obs'.cur[2] # None /\ TheWorker.last_playing # None) =>
        LET current == obs'.cur[2][1]
            last == TheWorker.last_playing[1]
            emitted == TheWorker'.item = OkItem(Some(current))
            silent == TheWorker'.item = NoItem
        IN /\ emitted \/ silent
           /\ current.mbid # "" => (emitted <=> current.mbid # last.mbid)
           /\ current.mbid = "" => (emitted <=> current.name # last.name)

C5_TrackIdPrecedence == [][C5_PrecedenceStep]_vars

\* An event fired for a new track id although the title did not change.
C5_Witness ==
    /\ obs.prev[1] = "Ok" /\ obs.prev[2] # None
    /\ obs.cur[1] = "Ok" /\ obs.cur[2] # None
    /\ obs.cur[2][1].mbid # ""
    /\ obs.prev[2][1].mbid # "" /\ obs.prev[2][1].mbid # obs.cur[2][1].mbid
    /\ obs.prev[2][1].name = obs.cur[2][1].name
    /\ TheWorker.item = OkItem(obs.cur[2])

\* C6: dedup idempotence.  A tick that observes the same current value as
\* the tick right before it emits nothing.
C6_DedupStep ==
    (OkTick /\ obs.cur[1] = "Ok" /\ obs'.cur = obs.cur) =>
        (TheWorker'.item = NoItem /\ TheWorker'.pc = "sleeping")

C6_DedupIdempotence == [][C6_DedupStep]_vars

\* The same track was observed twice in a row; the first tick had emitted
\* it (it is the retained snapshot), the second emitted nothing.
C6_Witness ==
    /\ obs.cur[1] = "Ok" /\ obs.cur[2] # None
    /\ obs.prev = obs.cur
    /\ TheWorker.last_playing = obs.cur[2]
    /\ TheWorker.pc = "sleeping"
    /\ TheWorker.item = NoItem

\* C7: store round trip.  Persisting the in-memory map and loading the file
\* with the same passphrase gives back the very same records.
C7_StoreRoundTrip ==
    LET written == to_encrypted_file(db, Key, disk, "none")
        loaded == from_encrypted_file(written.disk, Key)
    IN /\ written.res = "Ok"
       /\ loaded.res = "Ok"
       /\ loaded.db = db

\* A persisted store that holds a Pending and an Authorized record.
C7_Witness ==
    /\ OnDisk(db)
    /\ \E id \in DOMAIN db : Pending(db[id])
    /\ \E id \in DOMAIN db : Authorized(db[id])
    /\ resp.result = "Please visit"

\* C8 as stated: a present file that is not an age file under the process
\* passphrase holding a JSON map is refused, and a load returns an empty
\* store only when the file is absent.
C8_EmptyOnlyWhenAbsent ==
    resp.op = "load" =>
        /\ (disk # Absent /\ ~(disk[1] = "age" /\ disk[2] = Key /\ disk[3][1] = "json")) =>
              (resp.result # "Ok" /\ phase = "failed")
        /\ (resp.result = "Ok" /\ db = EmptyMap) => disk = Absent

\* C8: right after Db::from_encrypted_file (the file is still as it was
\* found): an absent file gives an empty store; a present file that is not
\* an age file under the process passphrase holding a JSON map gives an error
\* and ends startup; and a store loaded from a present file holds exactly
\* the records of that file, so it is empty only if the file is absent or
\* holds an empty map.
C8_LoadFailsLoudly ==
    resp.op = "load" =>
        /\ disk = Absent => (resp.result = "Ok" /\ db = EmptyMap)
        /\ (disk # Absent /\ resp.result = "Ok") => OnDisk(db)
        /\ (disk # Absent /\ ~(disk[1] = "age" /\ disk[2] = Key /\ disk[3][1] = "json")) =>
              (resp.result # "Ok" /\ phase = "failed")
        /\ resp.result = "Ok" <=> phase = "loaded"

\* A file written under another passphrase was refused.
C8_Witness ==
    /\ resp = Resp("load", "", "EncryptionError")
    /\ disk[1] = "age" /\ disk[2] # Key
    /\ phase = "failed"

\* C9: a record that is Authorized never returns to Pending, and
\* user_with_csrf returns no Authorized record, whatever the token.
C9_NeverFound ==
    \A state \in CsrfStates \cup AccessTokens :
        \A id \in user_with_csrf(db, state) : ~Authorized(db[id])

C9_NoDemotion ==
    \A id \in UserIds :
        (id \in DOMAIN db /\ Authorized(db[id]) /\ id \in DOMAIN db') =>
            Authorized(db'[id])

C9_Monotonic == []C9_NeverFound /\ [][C9_NoDemotion]_vars

\* A record was promoted with CSRF secret 1 and holds the access token 1.
C9_Witness ==
    /\ resp.result = "Authenticated!"
    /\ \E id \in DOMAIN db : db[id].slack_token = Oauth(1)
    /\ nextCsrf > 1

\* What the handlers and map_db hand back when a store mutation succeeded.
ReportedSuccess ==
    \/ resp.op = "connect" /\ resp.result \in {"Updated", "Please visit"}
    \/ resp.op = "auth" /\ resp.result = "Authenticated!"
    \/ resp.op = "disconnect" /\ resp.result = "Disconnected"
    \/ resp.op = "map_db" /\ resp.result = "Ok"

\* C10: persist-before-success.  Whenever a store-mutating operation has
\* reported success, the file holds the in-memory map.
C10_PersistBeforeSuccess == ReportedSuccess => OnDisk(db)

\* A success reported after an earlier write of the file had failed.
C10_Witness == ReportedSuccess /\ faults > 0 /\ db # EmptyMap

\* A step in which a write of the file failed.
PersistFailed == faults' # faults

\* C11: when persist fails inside add or remove, the caller gets an error and
\* the in-memory mutation stays: after a failed add the record is in memory,
\* after a failed remove it is not, and the file keeps its previous content.
C11_FailedPersistStep ==
    /\ (PersistFailed /\ resp'.op = "connect" /\ resp'.result # "panic") =>
          /\ resp'.result = "Error adding"
          /\ resp'.user \in DOMAIN db'
          /\ Pending(db'[resp'.user])
          /\ disk' = disk
    /\ (PersistFailed /\ resp'.op = "disconnect") =>
          /\ resp'.result = "Error disconnecting"
          /\ resp'.user \notin DOMAIN db'
          /\ disk' = disk

C11_NoRollback == [][C11_FailedPersistStep]_vars

\* C12: persist replaces the file atomically: after any step the file is
\* what it was before, or the complete snapshot of the in-memory map.
C12_PersistStep ==
    \/ disk' = disk
    \/ disk' = Age(Key, Json(to_json(db')))

C12_AtomicPersist == [][C12_PersistStep]_vars

\* A /disconnect of a user that has a record.
DisconnectOfRecord == resp'.op = "disconnect" /\ resp'.user \in DOMAIN db

\* C13: after a /disconnect of an id with a record and a running worker has
\* answered with success, the record is gone, the task map holds no handle
\* for the id, and no worker of the id is left running without a
\* cancellation request.
C13_DisconnectStep ==
    (/\ DisconnectOfRecord
     /\ resp'.result = "Disconnected"
     /\ LiveTasks(resp'.user) # {}) =>
        /\ resp'.user \notin DOMAIN db'
        /\ resp'.user \notin DOMAIN tasks'
        /\ \A w \in LiveTasks(resp'.user) : ~Live(workers'[w])

C13_DisconnectCancels == [][C13_DisconnectStep]_vars

\* C14: a /disconnect of an id that has a record and no task handle leaves
\* the task map alone and answers its caller normally.
C14_NoHandleStep ==
    (DisconnectOfRecord /\ resp'.user \notin DOMAIN tasks) =>
        /\ resp'.result \in {"Disconnected", "Error disconnecting"}
        /\ tasks' = tasks

C14_CancelIdempotent == [][C14_NoHandleStep]_vars

\* C15: startup reconciliation.  Until spawn_initial_updaters has pruned and
\* persisted the store there is no task and no handle; once it has, the map
\* holds no record whose existence check did not answer Ok(true) and the
\* file holds that map; and the tasks it then spawns are all for records
\* that were kept.
C15_NoTaskBeforePrune ==
    phase \in {"boot", "loaded", "pruned", "failed"} =>
        /\ tasks = EmptyMap
        /\ \A w \in Workers : workers[w] = FreeWorker

C15_Pruned ==
    phase = "pruned" =>
        /\ resp.op = "map_db"
        /\ DOMAIN db \subseteq resp.user
        /\ OnDisk(db)

C15_SpawnStep ==
    (phase = "pruned" /\ phase' = "serving") =>
        /\ db' = db
        /\ DOMAIN tasks' \subseteq resp.user
        /\ \A w \in Workers :
              workers'[w] # FreeWorker => workers'[w].user_id \in resp.user \cap DOMAIN db

C15_StartupReconciliation ==
    [](C15_NoTaskBeforePrune /\ C15_Pruned) /\ [][C15_SpawnStep]_vars

\* Startup dropped U2's record, persisted, and spawned a task for U1 only.
C15_Witness ==
    /\ resp.op = "spawn_initial_updaters"
    /\ DOMAIN db = {"U1"}
    /\ DOMAIN tasks = {"U1"}
    /\ OnDisk(db)
    /\ \A w \in Workers : workers[w] # FreeWorker => workers[w].user_id = "U1"

\* The task cells in which a step spawned a task.
Spawned == {w \in Workers : workers'[w].pc = "spawned" /\ workers[w].pc # "spawned"}

\* C16: a task is spawned, and its handle recorded, only for a record that
\* is Authorized at that moment.
C16_SpawnStep ==
    /\ \A w \in Spawned : Authorized(Locked(workers'[w].user_data, db'))
    /\ \A id \in DOMAIN tasks' :
          (id \notin DOMAIN tasks \/ tasks'[id] # tasks[id]) => tasks'[id] \in Spawned

C16_OnlyAuthorizedSpawned == [][C16_SpawnStep]_vars

\* C17: a task whose record has no slack token when it first runs ends
\* there: it never sleeps, fetches or pushes.
C17_PendingStartStep ==
    \A w \in Workers :
        (/\ workers[w].pc = "spawned"
         /\ workers'[w].pc # "spawned"
         /\ Pending(Locked(workers[w].user_data, db))) =>
            /\ workers'[w].pc \in {"finished", "cancelled", "free"}
            /\ workers'[w].push = None
            /\ workers'[w].item = NoItem

C17_PendingWorkerExits == [][C17_PendingStartStep]_vars

\* A task ran on a Pending record and returned before building its stream.
C17_Witness ==
    \E w \in Workers :
        /\ workers[w].pc = "finished"
        /\ ~workers[w].stream_done
        /\ workers[w].user_id \in DOMAIN db
        /\ Pending(db[workers[w].user_id])
        /\ workers[w].user_id \in DOMAIN tasks
        /\ tasks[workers[w].user_id] = w

Pushing(w) == w.pc \in {"push_get", "push_set"}

\* C18: presence mapping.  The worker is inside update_user_status exactly
\* while it holds a Changed event, and never twice for one event: for
\* Changed(Some(track)) the call carries "<title> - <artist>", ":music:" and
\* no expiry, for Changed(None) blank text, blank emoji and no expiry.
C18_PushArgs ==
    /\ Pushing(TheWorker) <=> TheWorker.item # NoItem
    /\ Pushing(TheWorker) <=> TheWorker.push # None
    /\ TheWorker.item # NoItem =>
          /\ TheWorker.item[1] = "Ok"
          /\ TheWorker.item[2] # None =>
                TheWorker.push = Some(StatusArgs(
                    Some(TheWorker.item[2][1].name \o " - " \o TheWorker.item[2][1].artist),
                    Some(":music:"), None))
          /\ TheWorker.item[2] = None =>
                TheWorker.push = Some(StatusArgs(Some(""), Some(""), None))

C18_OnePushStep ==
    /\ (TheWorker.pc = "push_get" /\ TheWorker'.pc # "push_get") =>
          TheWorker'.pc \in {"push_set", "sleeping"}
    /\ (TheWorker.pc = "push_set" /\ TheWorker'.pc # "push_set") =>
          TheWorker'.pc = "sleeping"
    /\ (~Pushing(TheWorker) /\ Pushing(TheWorker')) =>
          (TheWorker.pc = "fetching" /\ TheWorker'.pc = "push_get")

C18_PresenceMapping == []C18_PushArgs /\ [][C18_OnePushStep]_vars

\* The worker is setting a blank status after the track stopped.
C18_Witness ==
    /\ TheWorker.pc = "push_set"
    /\ TheWorker.item = OkItem(None)
    /\ TheWorker.push = Some(StatusArgs(Some(""), Some(""), None))
    /\ obs.prev[1] = "Ok" /\ obs.prev[2] # None

\* ------------------------------------- one worker, the pushes it has made
\* As StreamSpec, with obs the history of a run: the results its poll ticks
\* observed and the update_user_status calls the worker made, in order.
MaxPolls == 4

Song2 == Track("", "Song2", "X", TRUE)
Played == Track("", "Song2", "X", FALSE)
ScenarioResults ==
    {FetchErr, FetchOk(<<Song1>>), FetchOk(<<Song2>>), FetchOk(<<Played>>), FetchOk(<<>>)}

ScenarioInit ==
    /\ phase = "serving"
    /\ db = [id \in {"U1"} |-> promote_token(UserData_new("alice", 1), 1)]
    /\ disk = Age(Key, Json(to_json(db)))
    /\ tasks = [id \in {"U1"} |-> 1]
    /\ workers = [w \in Workers |->
          IF w = 1 THEN NewWorker("U1", Shared("U1")) ELSE FreeWorker]
    /\ nextCsrf = 2
    /\ resp = Resp("auth", "U1", "Authenticated!")
    /\ faults = 0
    /\ obs = [polls |-> <<>>, pushes |-> <<>>]
    /\ locks = NoLocks

RecordedPoll(w) ==
    \E res \in ScenarioResults :
        /\ Len(obs.polls) < MaxPolls
        /\ FetchDone(w, res)
        /\ obs' = [polls |-> Append(obs.polls, Observed(res)),
                   pushes |-> IF workers'[w].push # None
                              THEN Append(obs.pushes, workers'[w].push[1])
                              ELSE obs.pushes]

ScenarioFetched == \E w \in Workers : RecordedPoll(w)

ScenarioNext ==
    \/ Start
    \/ Wake
    \/ ScenarioFetched
    \/ ProfileGot
    \/ ProfileSet

ScenarioSpec == ScenarioInit /\ [][ScenarioNext]_vars

\* The four polls of the scenario, and the pushes expected after each.
ScenarioPolls ==
    << <<"Ok", Some(Song1)>>, <<"Ok", Some(Song1)>>, <<"Ok", Some(Song2)>>, <<"Ok", None>> >>

ScenarioPushes ==
    << StatusArgs(Some("Song1 - X"), Some(":music:"), None),
       StatusArgs(Some("Song2 - X"), Some(":music:"), None),
       StatusArgs(Some(""), Some(""), None) >>

\* C19: end-to-end scenario.  When the polls of a worker returned Song1,
\* Song1 again, Song2 and then nothing playing, its pushes are "Song1 - X"
\* after the first poll, nothing more after the second, "Song2 - X" after
\* the third and a blank status after the fourth.
C19_Scenario ==
    /\ obs.polls = SubSeq(ScenarioPolls, 1, 1) => obs.pushes = SubSeq(ScenarioPushes, 1, 1)
    /\ obs.polls = SubSeq(ScenarioPolls, 1, 2) => obs.pushes = SubSeq(ScenarioPushes, 1, 1)
    /\ obs.polls = SubSeq(ScenarioPolls, 1, 3) => obs.pushes = SubSeq(ScenarioPushes, 1, 2)
    /\ obs.polls = ScenarioPolls => obs.pushes = ScenarioPushes

\* The whole scenario has run and its last push has returned.
C19_Witness ==
    /\ obs.polls = ScenarioPolls
    /\ obs.pushes = ScenarioPushes
    /\ TheWorker.pc = "sleeping"
    /\ TheWorker.last_playing = None

\* ------------------------------- one worker, and /connect renaming its user
\* As StreamSpec, with U1 sending /connect with another Last.fm username
\* while the worker runs.
NewUsernames == {"alice", "bob"}

Rename ==
    \E name \in NewUsernames, fault \in Faults :
        ConnectHandler("U1", Some(name), TRUE, fault)

RenameNext ==
    \/ Start
    \/ Wake
    \/ StreamFetched
    \/ ProfileGot
    \/ ProfileSet
    \/ Rename

RenameSpec == StreamInit /\ [][RenameNext]_vars

\* C20: every fetch a running worker starts is for the username its record
\* holds at that moment.
C20_FetchStep ==
    (TheWorker.pc = "sleeping" /\ TheWorker'.pc = "fetching") =>
        TheWorker'.lastfm_username = Locked(TheWorker'.user_data, db').lastfm_username

C20_LatestUsername == [][C20_FetchStep]_vars

\* ------------------------------------------- cancellation and termination
\* The task of worker w left update_user_status: the call returned (the
\* stream is polled again), or the task was dropped inside it.
C21_PushStep ==
    \A w \in Workers :
        (Pushing(workers[w]) /\ ~Pushing(workers'[w]))
            => /\ workers'[w].pc = "sleeping"
               /\ workers'[w].user_id = workers[w].user_id

\* C21: a presence push in flight when the cancellation of its worker is
\* requested completes: no task leaves update_user_status other than by the
\* call's return.
C21_PushCompletes == [][C21_PushStep]_vars

\* C22: once disconnect has requested the cancellation of a worker, the
\* worker starts no fetch and no presence push: its task stays where it was
\* suspended until it is dropped, keeps the cancellation request and leaves
\* no new status to push.
C22_AbortedStep ==
    \A w \in Workers :
        workers[w].aborted
            => /\ workers'[w].pc \in {workers[w].pc, "cancelled", "free"}
               /\ workers'[w].pc = workers[w].pc
                     => /\ workers'[w].aborted
                        /\ workers'[w].item = workers[w].item
                        /\ workers'[w].push = workers[w].push
                        /\ workers'[w].last_playing = workers[w].last_playing
               /\ workers'[w].push \in {workers[w].push, None}

C22_NoStepAfterAbort == [][C22_AbortedStep]_vars

\* Disconnect answered "Disconnected" while the worker it told to stop was
\* in a fetch.
C22_Witness ==
    /\ resp.op = "disconnect" /\ resp.result = "Disconnected"
    /\ \E w \in Workers :
          /\ workers[w].aborted
          /\ workers[w].pc = "fetching"
          /\ workers[w].user_id = resp.user

\* C23: a task that ended on its own (update_user_data returned) has no entry
\* left in the task map.
C23_NoStaleHandle ==
    \A id \in DOMAIN tasks : workers[tasks[id]].pc # "finished"

\* The other half of C23: a task starts only in the authorization callback or
\* at startup, never as a replacement for one that ended.
C23_SpawnStep ==
    Spawned # {} => resp'.op \in {"auth", "spawn_initial_updaters"}

C23_NoRestart == [][C23_SpawnStep]_vars

\* ------------------------------------------------------ failing handlers
\* C24: a command whose persist of the store fails (connect creating a
\* record, connect updating the username of an Authorized record, disconnect,
\* the promotion in the authorization callback) answers its caller with an
\* error response and does not panic.
C24_FailedPersistAnswer ==
    (PersistFailed /\ resp'.op \in {"connect", "disconnect", "auth"})
        => resp'.result \in {"Error adding", "Error disconnecting"}

C24_PersistFailureAnswered == [][C24_FailedPersistAnswer]_vars

\* A step of the authorization callback that did not authenticate, for
\* another reason than a failed persist: no Pending record carries the state,
\* or the code exchange failed.
FailedCallback ==
    /\ resp'.op = "auth" /\ resp' # resp
    /\ resp'.result # "Authenticated!"
    /\ ~PersistFailed

\* C25: every failing authorization callback returns a static explanatory
\* string, spawns no task, records no handle and leaves the authorization
\* state of every record unchanged.
C25_FailedCallbackStep ==
    FailedCallback
        => /\ resp'.result = "CSRF couldn't be linked"
           /\ Spawned = {}
           /\ tasks' = tasks
           /\ db' = db

C25_FailedCallbackHarmless == [][C25_FailedCallbackStep]_vars

\* The part of C25 that does not depend on the answer.
C25_FailedCallbackFrame ==
    [][FailedCallback => (Spawned = {} /\ tasks' = tasks /\ db' = db)]_vars

\* ------------------------------------------------- relinking a username
\* The server after a startup that kept both records of OldStore and spawned
\* their tasks; /connect may then name either of two Last.fm accounts.
LinkedInit ==
    /\ phase = "serving"
    /\ db = OldStore
    /\ disk = Age(Key, Json(to_json(OldStore)))
    /\ tasks = [id \in UserIds |-> Ord(id)]
    /\ workers = [w \in Workers |->
          LET id == CHOOSE i \in UserIds : Ord(i) = w
          IN NewWorker(id, Shared(id))]
    /\ nextCsrf = 1
    /\ resp = Resp("spawn_initial_updaters", "", "Ok")
    /\ faults = 0
    /\ obs = [prev |-> Unset, cur |-> Unset]
    /\ locks = NoLocks

Relink ==
    \E id \in UserIds, name \in NewUsernames, fault \in Faults :
        ConnectHandler(id, Some(name), TRUE, fault)

LinkedNext ==
    \/ Relink
    \/ Auth
    \/ Start
    \/ Wake
    \/ Fetched
    \/ ProfileGot
    \/ ProfileSet

LinkedSpec == LinkedInit /\ [][LinkedNext]_vars

\* A /connect step issued by an id whose record is Authorized.
ConnectOfAuthorized ==
    /\ resp'.op = "connect"
    /\ <<resp, db, disk, faults>>' # <<resp, db, disk, faults>>
    /\ resp'.user \in DOMAIN db
    /\ Authorized(db[resp'.user])

\* C26: connect(id, name) by an id whose record is Authorized changes only
\* the tracked username of that record: its authorization state and token,
\* every other record and the task map (no cancel, no spawn) are unchanged.
C26_RelinkStep ==
    ConnectOfAuthorized
        => /\ DOMAIN db' = DOMAIN db
           /\ db'[resp'.user].slack_token = db[resp'.user].slack_token
           /\ db'[resp'.user].lastfm_username \in NewUsernames
           /\ \A other \in DOMAIN db \ {resp'.user} : db'[other] = db[other]
           /\ tasks' = tasks
           /\ workers' = workers
           /\ nextCsrf' = nextCsrf

C26_RelinkFrame == [][C26_RelinkStep]_vars

\* U1 relinked to "bob": it is still Authorized with its token, U2's record
\* is as it was loaded, and both handles are those of startup.
C26_Witness ==
    /\ resp = Resp("connect", "U1", "Updated")
    /\ db["U1"] = [OldStore["U1"] EXCEPT !.lastfm_username = "bob"]
    /\ db["U2"] = OldStore["U2"]
    /\ tasks = [id \in UserIds |-> Ord(id)]
    /\ Live(workers[1])

\* ------------------------------------------- the authorization callback
\* A step of oauth_handler (the tasks leave resp and db alone).
CallbackStep == resp'.op = "auth" /\ (resp' # resp \/ db' # db)

\* The records the step promoted from Pending to Authorized.
Promoted == {id \in DOMAIN db : Pending(db[id]) /\ Authorized(db'[id])}

\* C27: a callback that succeeds has looked up a Pending record, exchanged
\* the code, promoted the record, persisted the store, spawned the task and
\* inserted its handle, in this order: one that stops at the exchange has
\* promoted nothing, one that stops at the persist has promoted but spawned
\* nothing.
C27_CallbackOrder ==
    CallbackStep
        => IF resp'.result = "Authenticated!"
           THEN /\ Cardinality(Promoted) = 1
                /\ disk' = Age(Key, Json(to_json(db')))
                /\ \E w \in Workers :
                      /\ Spawned = {w}
                      /\ tasks' = MapPut(tasks, resp'.user, w)
                      /\ \E id \in Promoted : workers'[w].user_data = Shared(id)
           ELSE /\ Spawned = {}
                /\ tasks' = tasks
                /\ IF PersistFailed
                   THEN Cardinality(Promoted) = 1
                   ELSE db' = db

\* ... hence the task spawned by the callback finds a secret token in its
\* record: the record of a task that has not run yet stays Authorized, and
\* the task's first poll enters the stream's sleep (unless a disconnect has
\* had the task dropped before it ran).
C27_TokenFound ==
    \A w \in Workers :
        (workers[w].pc = "spawned" /\ Authorized(Locked(workers[w].user_data, db)))
            => IF workers'[w].pc = "spawned"
               THEN Authorized(Locked(workers'[w].user_data, db'))
               ELSE \/ workers'[w].pc = "sleeping"
                    \/ workers[w].aborted /\ workers'[w].pc \in {"cancelled", "free"}

C27_CallbackSpawnsAuthorized == [][C27_CallbackOrder /\ C27_TokenFound]_vars

\* The task the last callback spawned has read its record and sleeps before
\* its first fetch.
C27_Witness ==
    /\ resp.op = "auth" /\ resp.result = "Authenticated!"
    /\ resp.user \in DOMAIN tasks
    /\ workers[tasks[resp.user]].pc = "sleeping"
    /\ workers[tasks[resp.user]].user_data[1] = "shared"
    /\ Authorized(Locked(workers[tasks[resp.user]].user_data, db))

\* ------------------------------------------------- the pace of the stream
\* C28: in stream_now_playing every fetch is immediately preceded by one
\* sleep, the first fetch and the fetch after a tick that emitted nothing
\* included: a fetch starts only as a sleep ends, and the end of a fetch
\* (the only step that observes a poll) never leaves the stream in a fetch.
C28_FetchStep ==
    /\ (TheWorker'.pc = "fetching" /\ TheWorker.pc # "fetching")
          => TheWorker.pc = "sleeping"
    /\ obs' # obs
          => /\ TheWorker.pc = "fetching"
             /\ TheWorker'.pc \in {"sleeping", "push_get", "finished"}
    /\ TheWorker.pc = "spawned" => TheWorker'.pc \in {"spawned", "sleeping"}

C28_SleepBeforeFetch == [][C28_FetchStep]_vars

\* The second fetch is in flight, after a first tick that found nothing
\* playing and so emitted nothing.
C28_Witness ==
    /\ TheWorker.pc = "fetching"
    /\ obs.prev = Unset
    /\ obs.cur = <<"Ok", None>>
    /\ TheWorker.last_playing = None

\* ----------------------------------------------- one consumer per worker
\* C29: within one worker the events are handled in emission order by one
\* sequential consumer.  While the stream sleeps or fetches no event is
\* pending and no push is in flight (the push for event k has returned
\* before the sleep and fetch that can produce event k+1), and the push in
\* flight is the one of the last event emitted.
C29_OneAtATime ==
    /\ TheWorker.pc \in {"sleeping", "fetching"}
          => TheWorker.item = NoItem /\ TheWorker.push = None
    /\ Pushing(TheWorker)
          => /\ obs.pushes # <<>>
             /\ TheWorker.push = Some(obs.pushes[Len(obs.pushes)])
             /\ TheWorker.item[1] = "Ok"
             /\ TheWorker.push = Some(status_for(TheWorker.item[2]))

\* No poll is answered while a push is in flight, and each answer adds at
\* most one push, behind the earlier ones.
C29_InOrderStep ==
    /\ Pushing(TheWorker) => obs' = obs
    /\ obs'.polls # obs.polls
          => \/ obs'.pushes = obs.pushes
             \/ /\ Pushing(TheWorker')
                /\ obs'.pushes = Append(obs.pushes, TheWorker'.push[1])

C29_SequentialConsumer == []C29_OneAtATime /\ [][C29_InOrderStep]_vars

\* Two pushes have returned and the stream is in its next fetch.
C29_Witness ==
    /\ Len(obs.pushes) = 2
    /\ obs.pushes[1] # obs.pushes[2]
    /\ TheWorker.pc = "fetching"

\* ------------------------------------------------------ lock discipline
\* Startup, then requests of the three handlers and the tasks, each running
\* the lock operations of one of its paths.
LockInit ==
    /\ phase = "boot"
    /\ disk = Age(Key, Json(to_json(OldStore)))
    /\ db = EmptyMap
    /\ tasks = EmptyMap
    /\ workers = [w \in Workers |-> FreeWorker]
    /\ nextCsrf = 1
    /\ resp = Resp("none", "", "none")
    /\ faults = 0
    /\ obs = [prev |-> Unset, cur |-> Unset]
    /\ locks = NoLocks

StartupLocks == LockStep(Handler("startup"))
ConnectLocks == LockStep(Handler("connect"))
DisconnectLocks == LockStep(Handler("disconnect"))
AuthLocks == LockStep(Handler("auth"))
TaskLocks == \E id \in UserIds : LockStep(Task(id))

LockNext ==
    \/ StartupLocks
    \/ ConnectLocks
    \/ DisconnectLocks
    \/ AuthLocks
    \/ TaskLocks

LockSpec == LockInit /\ [][LockNext]_vars

\* p can take a step: its next lock operation, or the first one of a path
\* it may enter, is executable.
Runnable(p) ==
    IF Busy(p)
    THEN Executable(locks.run[p].path[locks.run[p].i])
    ELSE \E path \in Entry(p) : Executable(path[1])

\* While the process runs, some code path can proceed.
C30_Progress == phase # "failed" => \E p \in Procs : Runnable(p)

\* A code path that is running is never stopped at a lock for ever: the
\* holder of the lock it waits for can itself proceed.
C30_NoWaitCycle ==
    \A p \in Procs :
        (Busy(p) /\ ~Runnable(p))
            => LET holder == locks.owner[locks.run[p].path[locks.run[p].i][2]]
               IN holder # p /\ Runnable(holder)

\* The store lock is taken with no lock held, the task-map lock and a record
\* lock with at most the store lock held; a task takes only the lock of its
\* own record.
C30_AcquireStep ==
    \A p \in Procs, l \in LockNames :
        (locks'.owner[l] = p /\ locks.owner[l] # p)
            => /\ l = StoreLock => Held(p) = {}
               /\ l # StoreLock => Held(p) \subseteq {StoreLock}
               /\ p[1] = "task" => l = p[2] /\ Held(p) = {}

\* C30: no deadlock among handlers and workers.  Every code path acquires
\* the store lock first and then the task-map lock or a record lock, the
\* workers take only their own record's lock, and in every interleaving of
\* connect, disconnect, the authorization callback, startup and the workers
\* some step can proceed.
C30_NoDeadlock ==
    /\ [](C30_Progress /\ C30_NoWaitCycle)
    /\ [][C30_AcquireStep]_vars

\* The callback holds the store lock and the task-map lock while the task
\* it has just spawned reads its record.
C30_Witness ==
    /\ locks.owner[StoreLock] = Handler("auth")
    /\ locks.owner[TasksLock] = Handler("auth")
    /\ \E id \in UserIds : locks.owner[id] = Task(id)

\* ------------------------------------------------- the retained snapshot
\* A poll tick of the stream: its fetch returned.
Tick == TheWorker.pc = "fetching" /\ TheWorker'.pc # "fetching"

\* After the tick the snapshot is the payload of the event the tick emitted,
\* or the snapshot of before when it emitted none.
LastFollowsEvents ==
    IF TheWorker'.item # NoItem
    THEN /\ TheWorker'.item[1] = "Ok"
         /\ TheWorker'.last_playing = TheWorker'.item[2]
    ELSE TheWorker'.last_playing = TheWorker.last_playing

C31_OkTicks == [][OkTick => LastFollowsEvents]_vars

\* ------------------------------------------------- the key of the handle
\* C32: the handle recorded by a successful authorization callback is keyed
\* by the store key of the Pending record that matched the CSRF state: the
\* task found under that key is the one spawned on that record.
C32_KeyedStep ==
    (CallbackStep /\ resp'.result = "Authenticated!")
        => \A id \in Promoted :
              /\ resp'.user = id
              /\ id \in DOMAIN tasks'
              /\ tasks'[id] \in Spawned
              /\ workers'[tasks'[id]].user_data = Shared(id)

C32_HandleKeyedByRecord == [][C32_KeyedStep]_vars

\* What holds whatever the key: the handle is under authed_user.id and its
\* task holds the promoted record.
C32_KeyedByAuthedUser ==
    [][(CallbackStep /\ resp'.result = "Authenticated!")
          => /\ resp'.user \in DOMAIN tasks'
             /\ tasks'[resp'.user] \in Spawned
             /\ \E id \in Promoted :
                   workers'[tasks'[resp'.user]].user_data = Shared(id)]_vars

\* ------------------------------------------------------- orphan workers
\* C33: no orphan worker.  In every reachable state, after a disconnect
\* whose persist failed too, a live task (one whose cancellation has not
\* been requested) holds a record that is still in the in-memory store.
C33_NoOrphanWorker ==
    \A w \in Workers :
        Live(workers[w])
            => /\ workers[w].user_data[1] = "shared"
               /\ workers[w].user_data[2] \in DOMAIN db

\* The case the claim names: a disconnect answered with its error response
\* has removed the record and left the record's task running.
C33_AfterFailedDisconnect ==
    (resp.op = "disconnect" /\ resp.result = "Error disconnecting")
        => \A w \in Workers :
              (Live(workers[w]) /\ workers[w].user_id = resp.user)
                  => workers[w].user_data = Shared(resp.user)

====
